---- MODULE Spec2Model ----
(***************************************************************************)
(* Model of hhd/plugins/steam_pad_simulator/__init__.py:                   *)
(* SteamPadSimulatorPlugin, its configuration lifecycle (update, close)    *)
(* and the translation loop thread (_input_thread_loop).                   *)
(*                                                                         *)
(* Two kinds of process run: the governing lifecycle, which calls update() *)
(* and close() one after the other, and the loop threads it starts.  A     *)
(* method is cut into steps only where it reads or writes a field that the *)
(* other process also accesses, or where it blocks; the label of a step is *)
(* the source line it starts at.                                           *)
(*                                                                         *)
(* sensitivity is a Python float.  The model keeps it as a fraction        *)
(* num/den with den a power of two, which a binary float holds exactly, so *)
(* that int(diff * sensitivity) is the exact truncation of diff*num/den.   *)
(***************************************************************************)
EXTENDS Integers, Sequences, FiniteSets

\* ------------------------------------------------------------- bounds
\* number of events the source devices deliver over all loop runs
MaxEvents == 4
\* number of thread records kept: the plugin refers to one thread at a time
\* (self.input_thread), a second record lets two threads be alive at once
MaxThreads == 2

\* ---------------------------------------------------- program constants
SCREEN_WIDTH == 1920
SCREEN_HEIGHT == 1080

\* ------------------------------------------------------- input domains
\* absolute coordinates a device reports
XVals == {100, 110, 960}
YVals == {100}
\* sensitivity values: 0.0625, 2.0, and the default of the field, 1.0
Sixteenth == [num |-> 1, den |-> 16]
Double == [num |-> 2, den |-> 1]
DefaultSensitivity == [num |-> 1, den |-> 1]
\* the steam_pad_simulator sections update() is called with; a device path is
\* a number, 0 stands for None
Conf(en, path, sens, haptics, borders) ==
    [enable |-> en, device_path |-> path, sensitivity |-> sens,
     enable_haptics |-> haptics, show_debug_borders |-> borders]
Confs ==
    {Conf(TRUE, 1, Double, TRUE, TRUE),
     Conf(TRUE, 1, Sixteenth, FALSE, FALSE),
     Conf(TRUE, 2, Double, FALSE, TRUE),
     Conf(FALSE, 1, Sixteenth, TRUE, FALSE)}

Threads == 1..MaxThreads

VARIABLES
    \* fields of the plugin object
    enabled, touch_device_path, sensitivity, enable_haptics, show_debug_borders,
    virtual_controller, touch_device, input_thread, stop_thread,
    \* the governing lifecycle: its position and the locals of the running
    \* update() (conf holds the key update() has still to read,
    \* show_debug_borders)
    lpc, conf, new_enabled, new_device_path, new_sensitivity,
    \* each loop thread: position, the local dict state, the event last read,
    \* the local delta_x
    pc, state, event, delta_x,
    \* the devices: the status and the close() count of the UInput each thread
    \* created; whether a thread whose record is gone left its UInput open
    uinput, closes, leaked,
    \* the number of events delivered so far
    nev,
    \* observation of each thread: how it left the loop, the virtual-device
    \* calls and emitter commands made for the event last read, whether a
    \* touch-button press was read, the X at touch-start, the id of the
    \* show-overlay command of the current touch, the syn() calls made and
    \* the sync frames taken up while touching; the Y at touch-start and the
    \* sums of the relative X and Y values written since
    left, writes, emits, pressSeen, x0, shownId, nsyn, nframes, touch_sum

pluginVars == <<enabled, touch_device_path, sensitivity, enable_haptics,
                show_debug_borders, virtual_controller, touch_device,
                input_thread, stop_thread>>
lifeVars == <<lpc, conf, new_enabled, new_device_path, new_sensitivity>>
loopVars == <<pc, state, event, delta_x>>
devVars == <<uinput, closes, leaked, nev>>
obsVars == <<left, writes, emits, pressSeen, x0, shownId, nsyn, nframes,
             touch_sum>>
vars == <<pluginVars, lifeVars, loopVars, devVars, obsVars>>

\* ------------------------------------------------------------- events
Ev(t, c, v) == [type |-> t, code |-> c, value |-> v]
NoEvent == Ev("none", "none", 0)
\* what a touch device can deliver: the two axes, the touch button (press,
\* release, autorepeat), the frame marker, and events the loop does not know
Events ==
    {Ev("EV_ABS", "ABS_X", v) : v \in XVals} \cup
    {Ev("EV_ABS", "ABS_Y", v) : v \in YVals} \cup
    {Ev("EV_KEY", "BTN_TOUCH", v) : v \in {0, 1, 2}} \cup
    {Ev("EV_SYN", "SYN_REPORT", 0),
     Ev("EV_ABS", "ABS_PRESSURE", 100),
     Ev("EV_KEY", "BTN_TOOL_FINGER", 1)}

\* ------------------------------------------------------ pure helpers
\* the dict of line 110
InitState == [touching |-> "None", x |-> 0, y |-> 0, last_x |-> 0, last_y |-> 0]

\* Python's int() of the float n/d: truncation toward zero (d > 0).
\* IntCastFloor is the other rounding, toward minus infinity, against which
\* the property of the deltas is tried
IntCastFloor(n, d) == n \div d
IntCast(n, d) == IF n >= 0 THEN n \div d ELSE -((-n) \div d)

\* int((cur - last) * self.sensitivity), lines 157 and 158
Delta(cur, last, sens) == IntCast((cur - last) * sens.num, sens.den)

\* line 123: 'left' if state['x'] < SCREEN_WIDTH / 2 else 'right'.  SideLe is
\* the test with <= in place of <
SideLe(x) == IF 2 * x <= SCREEN_WIDTH THEN "left" ELSE "right"
Side(x) == IF 2 * x < SCREEN_WIDTH THEN "left" ELSE "right"

\* f"sps_debug_{side}"
OverlayId(side) == IF side = "left" THEN "sps_debug_left" ELSE "sps_debug_right"

\* the command records given to self.emit.inject; magnitudes in tenths,
\* the fields a command does not carry are 0 or FALSE
Rumble(m) ==
    [type |-> "rumble", id |-> "main", magnitude |-> m, x |-> 0,
     width |-> 0, height |-> 0, remove |-> FALSE]
ShowOverlay(side) ==
    [type |-> "overlay", id |-> OverlayId(side), magnitude |-> 0,
     x |-> IF side = "left" THEN 0 ELSE SCREEN_WIDTH \div 2,
     width |-> SCREEN_WIDTH \div 2, height |-> SCREEN_HEIGHT, remove |-> FALSE]
HideOverlay(side) ==
    [type |-> "overlay", id |-> OverlayId(side), magnitude |-> 0, x |-> 0,
     width |-> 0, height |-> 0, remove |-> TRUE]

\* the calls made on the virtual device
RelWrite(c, v) == [call |-> "write", type |-> "EV_REL", code |-> c, value |-> v]
Syn == [call |-> "syn", type |-> "EV_SYN", code |-> "SYN_REPORT", value |-> 0]
IsSyn(c) == c.call = "syn"

\* lines 160-163: the calls of one sync frame, in order.  FrameCallsSynIfMoved
\* is the variant that calls syn() only after a write
FrameCallsSynIfMoved(dx, dy) ==
    (IF dx # 0 THEN <<RelWrite("REL_X", dx)>> ELSE <<>>) \o
    (IF dy # 0 THEN <<RelWrite("REL_Y", dy)>> ELSE <<>>) \o
    (IF dx # 0 \/ dy # 0 THEN <<Syn>> ELSE <<>>)
FrameCalls(dx, dy) ==
    (IF dx # 0 THEN <<RelWrite("REL_X", dx)>> ELSE <<>>) \o
    (IF dy # 0 THEN <<RelWrite("REL_Y", dy)>> ELSE <<>>) \o
    <<Syn>>

\* positions of a thread that is not running: not started, returned from the
\* except clause, ended by an exception, returned after the loop
Ended == {"failed", "read_error", "write_error", "done"}
Alive(t) == pc[t] \notin Ended \cup {"unborn"}

\* Thread.join() returns once the thread has ended.  JoinNoWait is a join
\* that returns at once
JoinNoWait(t) == TRUE
Joined(t) == pc[t] \in Ended

\* stop_thread.is_set(), line 113.  IsSetNever is a test that never sees
\* the flag
IsSetNever == FALSE
IsSet == stop_thread

\* the conditions of lines 117, 122/125, 149 and 156 on the event read.  The
\* AnyState variants leave out the test of state['touching']
IsAxisEvent(ev) == ev.type = "EV_ABS"
IsTouchButton(ev) == ev.type = "EV_KEY" /\ ev.code = "BTN_TOUCH"
IsTouchStartAnyState(ev, st) == IsTouchButton(ev) /\ ev.value = 1
IsTouchStart(ev, st) == IsTouchButton(ev) /\ ev.value = 1 /\ st.touching = "None"
IsTouchEnd(ev, st) == IsTouchButton(ev) /\ ev.value = 0 /\ st.touching # "None"
IsSyncFrameAnyState(ev, st) == ev.type = "EV_SYN"
IsSyncFrame(ev, st) == ev.type = "EV_SYN" /\ st.touching # "None"

\* the side named by the hide-overlay command, line 152: the one stored at
\* touch-start.  HideSideNow is the side of the current X
HideSideNow(st) == Side(st.x)
HideSide(st) == st.touching

\* nothing written, outside a touch
NoSum == [y0 |-> 0, dx |-> 0, dy |-> 0]

\* ---------------------------------------------------------------- Init
\* the fields after __init__ (lines 24-42); no thread started, no device
Init ==
    /\ enabled = FALSE
    /\ touch_device_path = 0
    /\ sensitivity = DefaultSensitivity
    /\ enable_haptics = TRUE
    /\ show_debug_borders = FALSE
    /\ virtual_controller = 0
    /\ touch_device = 0
    /\ input_thread = 0
    /\ stop_thread = FALSE
    /\ lpc = "idle"
    /\ conf = FALSE
    /\ new_enabled = FALSE
    /\ new_device_path = 0
    /\ new_sensitivity = DefaultSensitivity
    /\ pc = [t \in Threads |-> "unborn"]
    /\ state = [t \in Threads |-> InitState]
    /\ event = [t \in Threads |-> NoEvent]
    /\ delta_x = [t \in Threads |-> 0]
    /\ uinput = [t \in Threads |-> "none"]
    /\ closes = [t \in Threads |-> 0]
    /\ leaked = FALSE
    /\ nev = 0
    /\ left = [t \in Threads |-> "no"]
    /\ writes = [t \in Threads |-> <<>>]
    /\ emits = [t \in Threads |-> <<>>]
    /\ pressSeen = [t \in Threads |-> FALSE]
    /\ x0 = [t \in Threads |-> 0]
    /\ shownId = [t \in Threads |-> "none"]
    /\ nsyn = [t \in Threads |-> 0]
    /\ nframes = [t \in Threads |-> 0]
    /\ touch_sum = [t \in Threads |-> NoSum]

\* ------------------------------------------------- the loop thread
\* the locals of a thread that has ended, and what was observed of them
Forget(t) ==
    /\ state' = [state EXCEPT ![t] = InitState]
    /\ event' = [event EXCEPT ![t] = NoEvent]
    /\ delta_x' = [delta_x EXCEPT ![t] = 0]
    /\ writes' = [writes EXCEPT ![t] = <<>>]
    /\ emits' = [emits EXCEPT ![t] = <<>>]
    /\ pressSeen' = [pressSeen EXCEPT ![t] = FALSE]
    /\ x0' = [x0 EXCEPT ![t] = 0]
    /\ touch_sum' = [touch_sum EXCEPT ![t] = NoSum]
    /\ shownId' = [shownId EXCEPT ![t] = "none"]
    /\ nsyn' = [nsyn EXCEPT ![t] = 0]
    /\ nframes' = [nframes EXCEPT ![t] = 0]

\* lines 97-102: UInput(...) is created and stored in self.virtual_controller
CreateUInput(t) ==
    /\ pc[t] = "l97"
    /\ pc' = [pc EXCEPT ![t] = "l103"]
    /\ virtual_controller' = t
    /\ uinput' = [uinput EXCEPT ![t] = "open"]
    /\ UNCHANGED <<enabled, touch_device_path, sensitivity, enable_haptics,
                   show_debug_borders, touch_device, input_thread, stop_thread>>
    /\ UNCHANGED <<lifeVars, state, event, delta_x, closes, leaked, nev, obsVars>>

\* lines 105-107: where the except clause leaves the thread: it returns.
\* ExceptFallsThrough is a clause that goes on to the loop
ExceptFallsThrough == "l112"
ExceptReturn == "failed"

\* lines 97-107: UInput(...) raises; the except clause logs and returns
CreateUInputFails(t) ==
    /\ pc[t] = "l97"
    /\ pc' = [pc EXCEPT ![t] = ExceptReturn]
    /\ UNCHANGED <<pluginVars, lifeVars, state, event, delta_x, devVars, obsVars>>

\* lines 103-110: InputDevice(self.touch_device_path) opens; state is set up
OpenInputDevice(t) ==
    /\ pc[t] = "l103"
    /\ pc' = [pc EXCEPT ![t] = "l112"]
    /\ touch_device' = touch_device_path
    /\ state' = [state EXCEPT ![t] = InitState]
    /\ UNCHANGED <<enabled, touch_device_path, sensitivity, enable_haptics,
                   show_debug_borders, virtual_controller, input_thread, stop_thread>>
    /\ UNCHANGED <<lifeVars, event, delta_x, devVars, obsVars>>

\* lines 103-107: InputDevice(...) raises; the except clause logs and returns,
\* the UInput created at line 97 is not closed
OpenInputDeviceFails(t) ==
    /\ pc[t] = "l103"
    /\ pc' = [pc EXCEPT ![t] = ExceptReturn]
    /\ UNCHANGED <<pluginVars, lifeVars, state, event, delta_x, devVars, obsVars>>

\* line 112: the blocking read_loop() yields the event ev.  Reading, the test
\* of line 113 and the first step of the handler make one step of the model:
\* between them the thread accesses no shared field but stop_thread
Read(t, ev) ==
    /\ pc[t] = "l112"
    /\ nev < MaxEvents
    /\ nev' = nev + 1
    /\ event' = [event EXCEPT ![t] = ev]
    /\ pressSeen' = [pressSeen EXCEPT ![t] = @ \/ (IsTouchButton(ev) /\ ev.value = 1)]

\* line 112: the generator ends; the for loop is left
StreamEnd(t) ==
    /\ pc[t] = "l112"
    /\ pc' = [pc EXCEPT ![t] = "l167"]
    /\ left' = [left EXCEPT ![t] = "stream_end"]
    /\ UNCHANGED <<pluginVars, lifeVars, state, event, delta_x, devVars>>
    /\ UNCHANGED <<writes, emits, pressSeen, x0, touch_sum, shownId, nsyn, nframes>>

\* line 112: reading the device raises (the device is gone); nothing in
\* _input_thread_loop catches it, the thread ends with the exception
StreamError(t) ==
    /\ pc[t] = "l112"
    /\ pc' = [pc EXCEPT ![t] = "read_error"]
    /\ Forget(t)
    /\ UNCHANGED <<pluginVars, lifeVars, devVars, left>>

\* lines 112-114: an event is read with the stop flag set: break
StopBreak(t, ev) ==
    /\ Read(t, ev)
    /\ IsSet
    /\ pc' = [pc EXCEPT ![t] = "l167"]
    /\ left' = [left EXCEPT ![t] = "stop"]
    /\ writes' = [writes EXCEPT ![t] = <<>>]
    /\ emits' = [emits EXCEPT ![t] = <<>>]
    /\ UNCHANGED <<pluginVars, lifeVars, state, delta_x, uinput, closes, leaked>>
    /\ UNCHANGED <<x0, touch_sum, shownId, nsyn, nframes>>

\* lines 117-119 (and the false tests of 122 and 156): an absolute-axis event
AxisUpdate(t, ev) ==
    /\ Read(t, ev)
    /\ ~IsSet
    /\ IsAxisEvent(ev)
    /\ state' = [state EXCEPT ![t] =
          IF ev.code = "ABS_X" THEN [@ EXCEPT !.x = ev.value]
          ELSE IF ev.code = "ABS_Y" THEN [@ EXCEPT !.y = ev.value]
          ELSE @]
    /\ writes' = [writes EXCEPT ![t] = <<>>]
    /\ emits' = [emits EXCEPT ![t] = <<>>]
    /\ UNCHANGED <<pluginVars, lifeVars, pc, delta_x, uinput, closes, leaked>>
    /\ UNCHANGED <<left, x0, touch_sum, shownId, nsyn, nframes>>

\* line 130: if self.enable_haptics.  HapticsAlways is a test that is
\* always true
HapticsAlways == TRUE
HapticsOn == enable_haptics

\* lines 122-131: touch-start; the side is fixed, last_x/last_y are set, and
\* with haptics on the rumble is started before the sleep of line 132
TouchStart(t, ev) ==
    /\ Read(t, ev)
    /\ ~IsSet
    /\ IsTouchStart(ev, state[t])
    /\ state' = [state EXCEPT ![t] =
          [@ EXCEPT !.touching = Side(state[t].x),
                    !.last_x = state[t].x, !.last_y = state[t].y]]
    /\ x0' = [x0 EXCEPT ![t] = state[t].x]
    /\ touch_sum' = [touch_sum EXCEPT ![t] = [NoSum EXCEPT !.y0 = state[t].y]]
    /\ IF HapticsOn
         THEN /\ emits' = [emits EXCEPT ![t] = <<Rumble(6)>>]
              /\ pc' = [pc EXCEPT ![t] = "l132"]
         ELSE /\ emits' = [emits EXCEPT ![t] = <<>>]
              /\ pc' = [pc EXCEPT ![t] = "l136"]
    /\ writes' = [writes EXCEPT ![t] = <<>>]
    /\ UNCHANGED <<pluginVars, lifeVars, delta_x, uinput, closes, leaked>>
    /\ UNCHANGED <<left, shownId, nsyn, nframes>>

\* lines 132-133: after time.sleep(0.05) the rumble is stopped
RumbleStop(t) ==
    /\ pc[t] = "l132"
    /\ emits' = [emits EXCEPT ![t] = Append(@, Rumble(0))]
    /\ pc' = [pc EXCEPT ![t] = "l136"]
    /\ UNCHANGED <<pluginVars, lifeVars, state, event, delta_x, devVars>>
    /\ UNCHANGED <<left, writes, pressSeen, x0, touch_sum, shownId, nsyn, nframes>>

\* lines 136-147: with debug borders on, the overlay of the side is shown
DebugBorder(t) ==
    /\ pc[t] = "l136"
    /\ IF show_debug_borders
         THEN /\ emits' = [emits EXCEPT ![t] = Append(@, ShowOverlay(state[t].touching))]
              /\ shownId' = [shownId EXCEPT ![t] = OverlayId(state[t].touching)]
         ELSE UNCHANGED <<emits, shownId>>
    /\ pc' = [pc EXCEPT ![t] = "l112"]
    /\ UNCHANGED <<pluginVars, lifeVars, state, event, delta_x, devVars>>
    /\ UNCHANGED <<left, writes, pressSeen, x0, touch_sum, nsyn, nframes>>

\* lines 149-153: touch-end; with debug borders on the overlay is removed
TouchEnd(t, ev) ==
    /\ Read(t, ev)
    /\ ~IsSet
    /\ IsTouchEnd(ev, state[t])
    /\ IF show_debug_borders
         THEN emits' = [emits EXCEPT ![t] = <<HideOverlay(HideSide(state[t]))>>]
         ELSE emits' = [emits EXCEPT ![t] = <<>>]
    /\ state' = [state EXCEPT ![t] = [@ EXCEPT !.touching = "None"]]
    /\ x0' = [x0 EXCEPT ![t] = 0]
    /\ touch_sum' = [touch_sum EXCEPT ![t] = NoSum]
    /\ shownId' = [shownId EXCEPT ![t] = "none"]
    /\ writes' = [writes EXCEPT ![t] = <<>>]
    /\ UNCHANGED <<pluginVars, lifeVars, pc, delta_x, uinput, closes, leaked>>
    /\ UNCHANGED <<left, nsyn, nframes>>

\* lines 156-157: a sync frame while touching; delta_x is computed
SyncFrame(t, ev) ==
    /\ Read(t, ev)
    /\ ~IsSet
    /\ IsSyncFrame(ev, state[t])
    /\ delta_x' = [delta_x EXCEPT ![t] = Delta(state[t].x, state[t].last_x, sensitivity)]
    /\ nframes' = [nframes EXCEPT ![t] = @ + 1]
    /\ pc' = [pc EXCEPT ![t] = "l158"]
    /\ writes' = [writes EXCEPT ![t] = <<>>]
    /\ emits' = [emits EXCEPT ![t] = <<>>]
    /\ UNCHANGED <<pluginVars, lifeVars, state, uinput, closes, leaked>>
    /\ UNCHANGED <<left, x0, touch_sum, shownId, nsyn>>

\* the sum of the values that the calls of s write to the relative axis c
RECURSIVE Total(_)
Total(s) == IF s = <<>> THEN 0 ELSE Head(s).value + Total(Tail(s))
Moved(s, c) == Total(SelectSeq(s, LAMBDA w : w.call = "write" /\ w.code = c))

\* line 164: last_x/last_y take the current coordinates after the calls of
\* the frame.  FrameEndIfWritten is the variant that does so only after a
\* write
FrameEndIfWritten(st, calls) ==
    IF calls = <<Syn>> THEN st ELSE [st EXCEPT !.last_x = st.x, !.last_y = st.y]
FrameEnd(st, calls) == [st EXCEPT !.last_x = st.x, !.last_y = st.y]

\* lines 158-164: delta_y is computed, the moves and the syn() are written,
\* last_x/last_y take the current coordinates
SyncWrite(t) ==
    /\ pc[t] = "l158"
    /\ LET delta_y == Delta(state[t].y, state[t].last_y, sensitivity)
           calls == FrameCalls(delta_x[t], delta_y)
       IN /\ writes' = [writes EXCEPT ![t] = calls]
          /\ nsyn' = [nsyn EXCEPT ![t] = @ + Len(SelectSeq(calls, IsSyn))]
          /\ state' = [state EXCEPT ![t] = FrameEnd(state[t], calls)]
          /\ touch_sum' = [touch_sum EXCEPT ![t] =
                [@ EXCEPT !.dx = @ + Moved(calls, "REL_X"),
                          !.dy = @ + Moved(calls, "REL_Y")]]
    /\ delta_x' = [delta_x EXCEPT ![t] = 0]
    /\ pc' = [pc EXCEPT ![t] = "l112"]
    /\ UNCHANGED <<pluginVars, lifeVars, event, devVars>>
    /\ UNCHANGED <<left, emits, pressSeen, x0, shownId, nframes>>

\* lines 160-163: a call on the virtual device raises; nothing in
\* _input_thread_loop catches it, the thread ends with the exception
SyncWriteError(t) ==
    /\ pc[t] = "l158"
    /\ pc' = [pc EXCEPT ![t] = "write_error"]
    /\ Forget(t)
    /\ UNCHANGED <<pluginVars, lifeVars, devVars, left>>

\* lines 117-156 with every test false: the event changes nothing
Ignore(t, ev) ==
    /\ Read(t, ev)
    /\ ~IsSet
    /\ ~IsAxisEvent(ev)
    /\ ~IsTouchStart(ev, state[t])
    /\ ~IsTouchEnd(ev, state[t])
    /\ ~IsSyncFrame(ev, state[t])
    /\ writes' = [writes EXCEPT ![t] = <<>>]
    /\ emits' = [emits EXCEPT ![t] = <<>>]
    /\ UNCHANGED <<pluginVars, lifeVars, pc, state, delta_x, uinput, closes, leaked>>
    /\ UNCHANGED <<left, x0, touch_sum, shownId, nsyn, nframes>>

\* lines 167-169: after the loop the virtual controller is closed
CloseController(t) ==
    /\ pc[t] = "l167"
    /\ IF virtual_controller \in Threads
         THEN /\ uinput' = [uinput EXCEPT ![virtual_controller] = "closed"]
              /\ closes' = [closes EXCEPT ![virtual_controller] = @ + 1]
         ELSE UNCHANGED <<uinput, closes>>
    /\ pc' = [pc EXCEPT ![t] = "done"]
    /\ Forget(t)
    /\ UNCHANGED <<pluginVars, lifeVars, leaked, nev, left>>

\* ------------------------------------------------ the lifecycle
\* lines 53-58: update(conf) reads the section and sets enable_haptics
UpdateBegin(c) ==
    /\ lpc = "idle"
    /\ new_enabled' = c.enable
    /\ new_device_path' = c.device_path
    /\ new_sensitivity' = c.sensitivity
    /\ conf' = c.show_debug_borders
    /\ enable_haptics' = c.enable_haptics
    /\ lpc' = "u59"
    /\ UNCHANGED <<enabled, touch_device_path, sensitivity, show_debug_borders,
                   virtual_controller, touch_device, input_thread, stop_thread>>
    /\ UNCHANGED <<loopVars, devVars, obsVars>>

\* line 59: show_debug_borders is set
UpdateBorders ==
    /\ lpc = "u59"
    /\ show_debug_borders' = conf
    /\ conf' = FALSE
    /\ lpc' = "u62"
    /\ UNCHANGED <<enabled, touch_device_path, sensitivity, enable_haptics,
                   virtual_controller, touch_device, input_thread, stop_thread>>
    /\ UNCHANGED <<new_enabled, new_device_path, new_sensitivity>>
    /\ UNCHANGED <<loopVars, devVars, obsVars>>

\* lines 62-63: the test for a change of enable or device_path.
\* ChangedAlways is a test that always sees a change
ChangedAlways(en, path) == TRUE
Changed(en, path) == enabled # en \/ touch_device_path # path

\* lines 62-68: on a change of enable or device_path both fields are stored
UpdateCompare ==
    /\ lpc = "u62"
    /\ IF Changed(new_enabled, new_device_path)
         THEN /\ enabled' = new_enabled
              /\ touch_device_path' = new_device_path
              /\ lpc' = IF input_thread # 0 THEN "u69" ELSE "u73"
         ELSE /\ UNCHANGED <<enabled, touch_device_path>>
              /\ lpc' = "u78"
    /\ new_enabled' = FALSE
    /\ new_device_path' = 0
    /\ UNCHANGED <<sensitivity, enable_haptics, show_debug_borders,
                   virtual_controller, touch_device, input_thread, stop_thread>>
    /\ UNCHANGED <<conf, new_sensitivity>>
    /\ UNCHANGED <<loopVars, devVars, obsVars>>

\* line 69: self.stop_thread.set()
UpdateSignal ==
    /\ lpc = "u69"
    /\ stop_thread' = TRUE
    /\ lpc' = "u70"
    /\ UNCHANGED <<enabled, touch_device_path, sensitivity, enable_haptics,
                   show_debug_borders, virtual_controller, touch_device, input_thread>>
    /\ UNCHANGED <<conf, new_enabled, new_device_path, new_sensitivity>>
    /\ UNCHANGED <<loopVars, devVars, obsVars>>

\* line 70: self.input_thread.join() returns
UpdateJoin ==
    /\ lpc = "u70"
    /\ Joined(input_thread)
    /\ lpc' = "u71"
    /\ UNCHANGED <<pluginVars, conf, new_enabled, new_device_path, new_sensitivity>>
    /\ UNCHANGED <<loopVars, devVars, obsVars>>

\* the flag after stop_thread.clear().  StillSet is a clear() that leaves it
StillSet == TRUE
Cleared == FALSE

\* line 71: self.stop_thread.clear()
UpdateClear ==
    /\ lpc = "u71"
    /\ stop_thread' = Cleared
    /\ lpc' = "u73"
    /\ UNCHANGED <<enabled, touch_device_path, sensitivity, enable_haptics,
                   show_debug_borders, virtual_controller, touch_device, input_thread>>
    /\ UNCHANGED <<conf, new_enabled, new_device_path, new_sensitivity>>
    /\ UNCHANGED <<loopVars, devVars, obsVars>>

\* the record the next Thread(...) takes: the first one of no running thread
NewThread ==
    CHOOSE t \in Threads : ~Alive(t) /\ \A u \in Threads : u < t => Alive(u)

\* lines 73-76: if self.enabled, a new thread is created and started.  Its
\* record replaces that of a thread that has ended: the UInput that one left
\* open is remembered in leaked, and a virtual_controller field that still
\* refers to that UInput is written -1
UpdateStart ==
    /\ lpc = "u73"
    /\ IF enabled
         THEN /\ \E t \in Threads : ~Alive(t)
              /\ input_thread' = NewThread
              /\ pc' = [pc EXCEPT ![NewThread] = "l97"]
              /\ uinput' = [uinput EXCEPT ![NewThread] = "none"]
              /\ closes' = [closes EXCEPT ![NewThread] = 0]
              /\ left' = [left EXCEPT ![NewThread] = "no"]
              /\ leaked' = (leaked \/ uinput[NewThread] = "open")
              /\ virtual_controller' =
                    IF virtual_controller = NewThread THEN -1 ELSE virtual_controller
         ELSE UNCHANGED <<input_thread, pc, uinput, closes, left, leaked,
                          virtual_controller>>
    /\ lpc' = "u78"
    /\ UNCHANGED <<enabled, touch_device_path, sensitivity, enable_haptics,
                   show_debug_borders, touch_device, stop_thread>>
    /\ UNCHANGED <<conf, new_enabled, new_device_path, new_sensitivity>>
    /\ UNCHANGED <<state, event, delta_x, nev>>
    /\ UNCHANGED <<writes, emits, pressSeen, x0, shownId, nsyn, nframes, touch_sum>>

\* line 78: self.sensitivity = new_sensitivity; update() returns
UpdateSensitivity ==
    /\ lpc = "u78"
    /\ sensitivity' = new_sensitivity
    /\ new_sensitivity' = DefaultSensitivity
    /\ lpc' = "idle"
    /\ UNCHANGED <<enabled, touch_device_path, enable_haptics, show_debug_borders,
                   virtual_controller, touch_device, input_thread, stop_thread>>
    /\ UNCHANGED <<conf, new_enabled, new_device_path>>
    /\ UNCHANGED <<loopVars, devVars, obsVars>>

\* lines 80-83: close() signals the thread, if there is one
CloseSignal ==
    /\ lpc = "idle"
    /\ IF input_thread # 0
         THEN /\ stop_thread' = TRUE
              /\ lpc' = "c84"
         ELSE UNCHANGED <<stop_thread, lpc>>
    /\ UNCHANGED <<enabled, touch_device_path, sensitivity, enable_haptics,
                   show_debug_borders, virtual_controller, touch_device, input_thread>>
    /\ UNCHANGED <<conf, new_enabled, new_device_path, new_sensitivity>>
    /\ UNCHANGED <<loopVars, devVars, obsVars>>

\* line 84: self.input_thread.join() returns; close() returns
CloseJoin ==
    /\ lpc = "c84"
    /\ Joined(input_thread)
    /\ lpc' = "idle"
    /\ UNCHANGED <<pluginVars, conf, new_enabled, new_device_path, new_sensitivity>>
    /\ UNCHANGED <<loopVars, devVars, obsVars>>

\* ---------------------------------------------------------- the system
\* the steps a loop thread takes by itself
LoopStep(t) ==
    \/ CreateUInput(t) \/ CreateUInputFails(t)
    \/ OpenInputDevice(t) \/ OpenInputDeviceFails(t)
    \/ RumbleStop(t) \/ DebugBorder(t)
    \/ SyncWrite(t) \/ SyncWriteError(t)
    \/ CloseController(t)

\* the steps a loop thread takes when its source device acts
DeviceStep(t) ==
    \/ \E ev \in Events :
          \/ StopBreak(t, ev) \/ AxisUpdate(t, ev) \/ TouchStart(t, ev)
          \/ TouchEnd(t, ev) \/ SyncFrame(t, ev) \/ Ignore(t, ev)
    \/ StreamEnd(t)
    \/ StreamError(t)

\* the steps of a running update() or close()
LifecycleRun ==
    \/ UpdateBorders \/ UpdateCompare \/ UpdateSignal \/ UpdateJoin
    \/ UpdateClear \/ UpdateStart \/ UpdateSensitivity
    \/ CloseJoin

\* the calls of update() and close(), and their steps
LifecycleStep ==
    \/ \E c \in Confs : UpdateBegin(c)
    \/ CloseSignal
    \/ LifecycleRun

Next ==
    \/ LifecycleStep
    \/ \E t \in Threads : LoopStep(t)
    \/ \E t \in Threads : DeviceStep(t)

Spec == Init /\ [][Next]_vars

\* the scheduler runs every thread: a step that a loop thread, or a running
\* update() or close(), can take by itself is eventually taken.  Nothing is
\* assumed of the devices, nor of when update() and close() are called
FairSpec ==
    /\ Spec
    /\ WF_vars(LifecycleRun)
    /\ \A t \in Threads : WF_vars(LoopStep(t))

\* ------------------------------------------------------------ one touch
\* a loop in a touch, with the configuration of an update() that has
\* returned: the press was the last event handled, at X = x and Y = 0, and
\* nev counts the events delivered after it
TouchInit ==
    \E c \in {k \in Confs : k.enable}, x \in {0} \cup XVals :
        LET t == 1
            on(v) == [u \in Threads |-> IF u = t THEN v ELSE NoSum]
            at(v, w) == [u \in Threads |-> IF u = t THEN v ELSE w]
        IN /\ enabled = TRUE
           /\ touch_device_path = c.device_path
           /\ sensitivity = c.sensitivity
           /\ enable_haptics = c.enable_haptics
           /\ show_debug_borders = c.show_debug_borders
           /\ virtual_controller = t
           /\ touch_device = c.device_path
           /\ input_thread = t
           /\ stop_thread = FALSE
           /\ lpc = "idle"
           /\ conf = FALSE
           /\ new_enabled = FALSE
           /\ new_device_path = 0
           /\ new_sensitivity = DefaultSensitivity
           /\ pc = at("l112", "unborn")
           /\ state = at([InitState EXCEPT !.touching = Side(x), !.x = x,
                                           !.last_x = x], InitState)
           /\ event = at(Ev("EV_KEY", "BTN_TOUCH", 1), NoEvent)
           /\ delta_x = at(0, 0)
           /\ uinput = at("open", "none")
           /\ closes = at(0, 0)
           /\ leaked = FALSE
           /\ nev = 0
           /\ left = at("no", "no")
           /\ writes = at(<<>>, <<>>)
           /\ emits = at((IF c.enable_haptics THEN <<Rumble(6), Rumble(0)>> ELSE <<>>) \o
                         (IF c.show_debug_borders THEN <<ShowOverlay(Side(x))>> ELSE <<>>),
                         <<>>)
           /\ pressSeen = at(TRUE, FALSE)
           /\ x0 = at(x, 0)
           /\ shownId = at(IF c.show_debug_borders THEN OverlayId(Side(x)) ELSE "none",
                           "none")
           /\ nsyn = at(0, 0)
           /\ nframes = at(0, 0)
           /\ touch_sum = on(NoSum)

\* the steps of the loop while update() and close() are not called, the flag
\* is clear and the devices work
TouchStep(t) ==
    \/ \E ev \in Events :
          \/ AxisUpdate(t, ev) \/ TouchStart(t, ev) \/ TouchEnd(t, ev)
          \/ SyncFrame(t, ev) \/ Ignore(t, ev)
    \/ RumbleStop(t) \/ DebugBorder(t) \/ SyncWrite(t)

TouchNext == \E t \in Threads : TouchStep(t)

TouchSpec == TouchInit /\ [][TouchNext]_vars

\* ------------------------------------------------------------ properties
\* thread t is the one that takes the event ev from its device in this step
Reads(t, ev) ==
    /\ pc[t] = "l112"
    /\ nev' = nev + 1
    /\ event'[t] = ev
    /\ \A u \in Threads \ {t} : pc[u] # "l112"

Press == Ev("EV_KEY", "BTN_TOUCH", 1)
Release == Ev("EV_KEY", "BTN_TOUCH", 0)

\* q is n/d cut toward zero (d > 0): q has the sign of n and |n - q*d| < d
IsTrunc(q, n, d) ==
    /\ n >= 0 => (q >= 0 /\ q * d <= n /\ n < (q + 1) * d)
    /\ n < 0 => (q <= 0 /\ q * d >= n /\ n > (q - 1) * d)

\* the calls of s that write the relative axis c
AxisWrites(s, c) == SelectSeq(s, LAMBDA w : w.call = "write" /\ w.code = c)

\* Claim C1: as long as a loop run has read no touch-button press, touching
\* is None, the virtual device has had no write() and no syn(), the emitter
\* no command, and no sync frame has been taken up as one of a touch.
IdleUntilFirstPress ==
    \A t \in Threads :
        ~pressSeen[t] =>
            /\ state[t].touching = "None"
            /\ writes[t] = <<>>
            /\ emits[t] = <<>>
            /\ nsyn[t] = 0
            /\ nframes[t] = 0
            /\ pc[t] \notin {"l132", "l136", "l158"}

\* a sync frame was read, with X moved, by a run that has read no press
IdleSyncRead ==
    \E t \in Threads :
        /\ pc[t] = "l112"
        /\ ~pressSeen[t]
        /\ event[t].type = "EV_SYN"
        /\ state[t].x # state[t].last_x

\* Claim C2: a sync frame taken up while touching computes delta_x as
\* (x - last_x) * sensitivity cut toward zero; the step that writes it makes
\* one relative-X write of delta_x if delta_x is not zero and none otherwise,
\* one relative-Y write of (y - last_y) * sensitivity cut toward zero if that
\* is not zero and none otherwise, and X is written before Y.
SyncFrameDeltas ==
    [][\A t \in Threads :
        /\ (Reads(t, event'[t]) /\ pc'[t] = "l158") =>
              IsTrunc(delta_x'[t],
                      (state[t].x - state[t].last_x) * sensitivity.num,
                      sensitivity.den)
        /\ (pc[t] = "l158" /\ pc'[t] = "l112") =>
              LET w == writes'[t]
                  wx == AxisWrites(w, "REL_X")
                  wy == AxisWrites(w, "REL_Y")
                  ny == (state[t].y - state[t].last_y) * sensitivity.num
              IN /\ Len(wx) = (IF delta_x[t] # 0 THEN 1 ELSE 0)
                 /\ \A i \in DOMAIN wx :
                       wx[i].type = "EV_REL" /\ wx[i].value = delta_x[t]
                 /\ Len(wy) <= 1
                 /\ \A i \in DOMAIN wy :
                       /\ wy[i].type = "EV_REL"
                       /\ wy[i].value # 0
                       /\ IsTrunc(wy[i].value, ny, sensitivity.den)
                 /\ Len(wy) = 0 => IsTrunc(0, ny, sensitivity.den)
                 /\ \A i, j \in DOMAIN w :
                       (w[i].code = "REL_X" /\ w[j].code = "REL_Y") => i < j
    ]_vars

\* a touch started at x = 960 and moved to 110 under sensitivity 0.0625: the
\* product -53.125 was written as a relative-X move of -53, with no Y move
TruncatedMoveWritten ==
    \E t \in Threads :
        /\ x0[t] = 960
        /\ state[t].x = 110
        /\ sensitivity = Sixteenth
        /\ writes[t] = <<RelWrite("REL_X", -53), Syn>>

\* Claim C3: the step that ends a sync frame of a touch makes exactly one
\* syn() call, after the axis writes of the frame, and with both deltas zero
\* it makes no other call; the syn() calls of a run are as many as the sync
\* frames it has taken up while touching, less the one still being written.
OneSynPerFrame ==
    /\ [](\A t \in Threads :
            nsyn[t] + (IF pc[t] = "l158" THEN 1 ELSE 0) = nframes[t])
    /\ [][\A t \in Threads :
            (pc[t] = "l158" /\ pc'[t] = "l112") =>
                LET w == writes'[t]
                    dy == Delta(state[t].y, state[t].last_y, sensitivity)
                IN /\ Len(w) >= 1
                   /\ w[Len(w)] = Syn
                   /\ \A i \in 1..(Len(w) - 1) : w[i].call = "write"
                   /\ nsyn'[t] = nsyn[t] + 1
                   /\ (delta_x[t] = 0 /\ dy = 0) => w = <<Syn>>
       ]_vars

\* a sync frame of a touch that had not moved: one syn() and nothing else
ZeroMoveFrameSynced ==
    \E t \in Threads :
        /\ pc[t] = "l112"
        /\ event[t].type = "EV_SYN"
        /\ state[t].touching # "None"
        /\ nframes[t] = 1
        /\ writes[t] = <<Syn>>

\* Claim C4: during a touch, touching is "left" if the X held when the press
\* was taken up is below 960 and "right" otherwise, and neither the side nor
\* that X changes before the touch ends.
SideFixedAtTouchStart ==
    /\ [](\A t \in Threads :
            state[t].touching # "None" =>
                /\ state[t].touching \in {"left", "right"}
                /\ state[t].touching = "left" <=> x0[t] < 960)
    /\ [][\A t \in Threads :
            (state[t].touching # "None" /\ state'[t].touching # "None") =>
                (state'[t].touching = state[t].touching /\ x0'[t] = x0[t])
       ]_vars

\* a touch started at x = 960 is on the right, and still is with X at 100
\* and a further press read
RightAtMidpointKept ==
    \E t \in Threads :
        /\ pc[t] = "l112"
        /\ x0[t] = 960
        /\ state[t].touching = "right"
        /\ state[t].x = 100
        /\ event[t] = Press

\* Claim C5: a press read during a touch and a release read with no touch
\* change no field of state and bring no emitter command and no call on the
\* virtual device; touching leaves None only on a press and returns to None
\* only on a release, or when the run ends.
StrayButtonIsNoOp ==
    [][\A t \in Threads :
        /\ (\/ Reads(t, Press) /\ state[t].touching # "None"
            \/ Reads(t, Release) /\ state[t].touching = "None") =>
              /\ state'[t] = state[t]
              /\ emits'[t] = <<>>
              /\ writes'[t] = <<>>
              /\ nsyn'[t] = nsyn[t]
              /\ pc'[t] \in {"l112", "l167"}
        /\ (state[t].touching = "None" /\ state'[t].touching # "None") =>
              Reads(t, Press)
        /\ (state[t].touching # "None" /\ state'[t].touching = "None") =>
              (Reads(t, Release) \/ pc'[t] \in Ended)
    ]_vars

\* a press was taken up during a touch that had moved: last_x is not reset
PressDuringTouchRead ==
    \E t \in Threads :
        /\ pc[t] = "l112"
        /\ left[t] = "no"
        /\ event[t] = Press
        /\ state[t].touching # "None"
        /\ state[t].x # state[t].last_x

\* Claim C6: a release taken up during a touch with show_debug_borders true
\* brings exactly one emitter command, the removal of the overlay whose id
\* is that of the side of the X held at touch-start, which is the id the
\* touch-start showed if it showed one; a release read with no touch brings
\* no command.
HideMatchesTouchStart ==
    [][\A t \in Threads :
        /\ (/\ Reads(t, Release)
            /\ ~stop_thread
            /\ state[t].touching # "None"
            /\ show_debug_borders) =>
              /\ Len(emits'[t]) = 1
              /\ emits'[t][1].type = "overlay"
              /\ emits'[t][1].remove
              /\ emits'[t][1].id =
                    (IF x0[t] < 960 THEN "sps_debug_left" ELSE "sps_debug_right")
              /\ shownId[t] # "none" => emits'[t][1].id = shownId[t]
        /\ (Reads(t, Release) /\ state[t].touching = "None") =>
              emits'[t] = <<>>
    ]_vars

\* a touch started at x = 960 and ended at x = 100: the right overlay was
\* removed
HiddenAfterCrossing ==
    \E t \in Threads :
        /\ pc[t] = "l112"
        /\ event[t] = Release
        /\ state[t].x = 100
        /\ state[t].touching = "None"
        /\ emits[t] = <<HideOverlay("right")>>

\* Claim C7: an event read with stop_thread set changes no field of state,
\* brings no emitter command and no call on the virtual device, whatever the
\* event and whether a touch is active, and the thread leaves the loop.
StopSkipsEvent ==
    [][\A t \in Threads :
        (Reads(t, event'[t]) /\ stop_thread) =>
            /\ state'[t] = state[t]
            /\ delta_x'[t] = delta_x[t]
            /\ emits'[t] = <<>>
            /\ writes'[t] = <<>>
            /\ nsyn'[t] = nsyn[t]
            /\ nframes'[t] = nframes[t]
            /\ pc'[t] = "l167"
    ]_vars

\* a release was read during a touch, with debug borders on and stop_thread
\* set: the touch is still active and the thread is past the loop
StoppedDuringTouch ==
    \E t \in Threads :
        /\ pc[t] = "l167"
        /\ left[t] = "stop"
        /\ event[t] = Release
        /\ state[t].touching # "None"
        /\ show_debug_borders

\* Claim C8: a thread that has entered the loop and has ended, by the break,
\* by the end of the stream or by an exception of the read or of a write,
\* has closed its UInput exactly once.
ClosedOnEveryExit ==
    \A t \in Threads :
        /\ closes[t] <= 1
        /\ pc[t] \in {"done", "read_error", "write_error"} =>
              (uinput[t] = "closed" /\ closes[t] = 1)

\* Claim C9: at most one loop thread is alive, and a thread is started only
\* when no thread is alive: the one before it, if any, has ended.
AtMostOneLoopThread ==
    /\ [](Cardinality({t \in Threads : Alive(t)}) <= 1)
    /\ [][\A t \in Threads :
            (~Alive(t) /\ Alive(t)') =>
                /\ \A u \in Threads : ~Alive(u)
                /\ input_thread # 0 => pc[input_thread] \in Ended
       ]_vars

\* a thread runs in place of one that had opened another device
ThreadReplaced ==
    \E t \in Threads :
        /\ input_thread = t
        /\ Alive(t)
        /\ touch_device # 0
        /\ touch_device # touch_device_path

\* Claim C10: once update() or close() waits in join() with stop_thread set,
\* the join returns.
JoinReturns ==
    (stop_thread /\ lpc \in {"u70", "c84"}) ~> (lpc \notin {"u70", "c84"})

\* Claim C11: the steps of an update() whose enable and device_path equal
\* the stored ones set no flag, start and end no thread and touch no device:
\* the call goes from the test of line 62 to line 78, and of the fields of
\* the plugin only enable_haptics, show_debug_borders and sensitivity can
\* change in its steps.
SameConfigOnlyTunes ==
    [][(/\ lpc' # lpc
        /\ \/ lpc = "u62" /\ new_enabled = enabled
                          /\ new_device_path = touch_device_path
           \/ lpc \in {"u59", "u78"}
           \/ lpc = "idle" /\ lpc' = "u59") =>
          /\ lpc = "u62" => lpc' = "u78"
          /\ UNCHANGED <<enabled, touch_device_path, input_thread, stop_thread,
                         virtual_controller, touch_device>>
          /\ UNCHANGED <<pc, uinput, closes, leaked>>
          /\ lpc # "idle" => enable_haptics' = enable_haptics
          /\ lpc # "u59" => show_debug_borders' = show_debug_borders
          /\ lpc # "u78" => sensitivity' = sensitivity
    ]_vars

\* update() is past the test of line 62 with enable true, the thread it
\* started earlier has failed at startup, and stop_thread is still set from
\* a close(): the call took the branch of no change, or it had cleared the
\* flag
SameConfigAfterFailure ==
    /\ lpc = "u78"
    /\ enabled
    /\ stop_thread
    /\ input_thread # 0
    /\ pc[input_thread] = "failed"

\* Claim C12: a thread whose UInput or InputDevice fails at startup ends
\* there: it has read no event, has an untouched state, has caused no
\* emitter command and no call on a virtual device and has not been in the
\* loop; the failing step changes nothing of the plugin or of the running
\* update() or close().
StartupFailureIsLocal ==
    /\ [](\A t \in Threads :
            /\ uinput[t] = "none" => pc[t] \in {"unborn", "l97", "failed"}
            /\ pc[t] = "failed" =>
                  /\ event[t] = NoEvent
                  /\ state[t] = InitState
                  /\ emits[t] = <<>>
                  /\ writes[t] = <<>>
                  /\ nsyn[t] = 0
                  /\ ~pressSeen[t]
                  /\ left[t] = "no")
    /\ [][\A t \in Threads :
            (pc[t] # "failed" /\ pc'[t] = "failed") =>
                /\ pc[t] \in {"l97", "l103"}
                /\ UNCHANGED <<pluginVars, lifeVars, nev, uinput>>
       ]_vars

\* the UInput of the thread could not be created; update() has returned
StartupFailedQuietly ==
    \E t \in Threads :
        /\ input_thread = t
        /\ pc[t] = "failed"
        /\ uinput[t] = "none"
        /\ lpc = "idle"
        /\ enabled

IsRumble(c) == c.type = "rumble"
RumbleCommands(s) == SelectSeq(s, IsRumble)

\* Claim C13: a press taken up as a touch-start brings, with enable_haptics
\* true, a rumble command of magnitude 0.6 and the thread waits at line 132;
\* its next step emits the rumble command of magnitude 0 and nothing else,
\* reads no event and makes no call on the virtual device; the overlay
\* command comes after both.  With enable_haptics false the touch-start
\* brings no rumble command, and no other step adds one.
RumblePulseFirst ==
    /\ [](\A t \in Threads :
            LET e == emits[t] IN
            /\ pc[t] = "l132" =>
                  (Len(e) = 1 /\ IsRumble(e[1]) /\ e[1].magnitude = 6)
            /\ (pc[t] # "l132" /\ RumbleCommands(e) # <<>>) =>
                  /\ event[t] = Press
                  /\ Len(RumbleCommands(e)) = 2
                  /\ IsRumble(e[1]) /\ e[1].magnitude = 6
                  /\ IsRumble(e[2]) /\ e[2].magnitude = 0)
    /\ [][\A t \in Threads :
            /\ (Reads(t, Press) /\ ~stop_thread /\ state[t].touching = "None") =>
                  IF enable_haptics
                    THEN pc'[t] = "l132"
                    ELSE pc'[t] = "l136" /\ emits'[t] = <<>>
            /\ (pc[t] = "l132" /\ pc'[t] # "l132") =>
                  /\ pc'[t] = "l136"
                  /\ Len(emits'[t]) = 2
                  /\ UNCHANGED <<nev, event, state, writes, nsyn>>
            /\ (pc[t] # "l132" /\ ~Reads(t, Press)) =>
                  Len(RumbleCommands(emits'[t])) <= Len(RumbleCommands(emits[t]))
       ]_vars

\* a touch-start with haptics and debug borders on has emitted the rumble
\* start, the rumble stop and then the overlay
PulseThenOverlay ==
    \E t \in Threads :
        /\ pc[t] = "l112"
        /\ emits[t] = <<Rumble(6), Rumble(0), ShowOverlay("left")>>

\* Claim C14: last_x and last_y change only in a touch-start and in the step
\* that ends a sync frame of a touch (or when the run ends); after a
\* touch-start, and after the end of every such frame, they are the current
\* x and y, whatever the frame wrote.
LastFollowsFrames ==
    [][\A t \in Threads :
        /\ (/\ pc'[t] \notin Ended
            /\ \/ state'[t].last_x # state[t].last_x
               \/ state'[t].last_y # state[t].last_y) =>
              \/ Reads(t, Press) /\ state[t].touching = "None"
              \/ pc[t] = "l158" /\ pc'[t] = "l112"
        /\ (\/ Reads(t, Press) /\ ~stop_thread /\ state[t].touching = "None"
            \/ pc[t] = "l158" /\ pc'[t] = "l112") =>
              /\ state'[t].x = state[t].x
              /\ state'[t].y = state[t].y
              /\ state'[t].last_x = state[t].x
              /\ state'[t].last_y = state[t].y
    ]_vars

\* a frame of a touch that had moved from 100 to 110 under sensitivity
\* 0.0625 has written no move, and last_x is 110
LastAdvancedWithoutWrite ==
    \E t \in Threads :
        /\ pc[t] = "l112"
        /\ x0[t] = 100
        /\ state[t].x = 110
        /\ state[t].last_x = 110
        /\ writes[t] = <<Syn>>

\* Claim C15: enabled and touch_device_path are written only when no loop
\* thread is alive, and the device a thread opens at line 103 is the path
\* that was stored when the thread was started: the path is not written
\* between the start of a thread and its open.
PathStableWhileLoopAlive ==
    [][(enabled' # enabled \/ touch_device_path' # touch_device_path) =>
          \A t \in Threads : ~Alive(t)
    ]_vars

\* Claim C16: the values of the configuration that the handling of one event
\* uses come from one update(); for a sync frame: when delta_y is about to
\* be computed, delta_x is what the sensitivity read for delta_y gives.
FrameUsesOneSensitivity ==
    \A t \in Threads :
        pc[t] = "l158" =>
            delta_x[t] = Delta(state[t].x, state[t].last_x, sensitivity)

\* Claim C17: at most one UInput created by the plugin is open, and none is
\* open when no loop thread is alive.
OneVirtualDevice ==
    LET open == {t \in Threads : uinput[t] = "open"} IN
    /\ Cardinality(open) + (IF leaked THEN 1 ELSE 0) <= 1
    /\ (\A t \in Threads : ~Alive(t)) => (open = {} /\ ~leaked)

\* Claim C18: an overlay that was shown is removed: a touch-end emits the
\* removal of the overlay its touch-start showed, and no removal if none was
\* shown, and no overlay is shown when the thread has left the loop.
ShownOverlayIsRemoved ==
    /\ [](\A t \in Threads : pc[t] = "l167" => shownId[t] = "none")
    /\ [][\A t \in Threads :
            (Reads(t, Release) /\ ~stop_thread /\ state[t].touching # "None") =>
                IF shownId[t] = "none"
                  THEN emits'[t] = <<>>
                  ELSE /\ Len(emits'[t]) = 1
                       /\ emits'[t][1].remove
                       /\ emits'[t][1].id = shownId[t]
       ]_vars

\* Claim C19: stop_thread is clear in the step that starts a loop thread,
\* and it becomes set only in the step of line 69 of update() or of line 83
\* of close().
StartsWithFlagClear ==
    [][/\ \A t \in Threads :
            (~Alive(t) /\ Alive(t)') => (~stop_thread /\ ~stop_thread')
       /\ (~stop_thread /\ stop_thread') =>
            \/ lpc = "u69" /\ lpc' = "u70"
            \/ lpc = "idle" /\ lpc' = "c84"
    ]_vars

\* update() has just started a thread in place of one that had opened its
\* device, and the flag is clear
RestartedWithFlagClear ==
    \E t \in Threads :
        /\ lpc = "u78"
        /\ input_thread = t
        /\ pc[t] = "l97"
        /\ touch_device # 0
        /\ ~stop_thread

\* Claim C20: under a constant sensitivity num/den, after every sync frame
\* of a touch the sum of the relative-X values written since the touch-start
\* differs from (x - x at touch-start) * num/den by less than 1, and is equal
\* to it when den = 1; likewise for Y.
MovementAddsUp ==
    \A t \in Threads :
        (pc[t] = "l112" /\ state[t].touching # "None" /\ writes[t] # <<>>) =>
            LET n == sensitivity.num
                d == sensitivity.den
                ex == touch_sum[t].dx * d - n * (state[t].x - x0[t])
                ey == touch_sum[t].dy * d - n * (state[t].y - touch_sum[t].y0)
            IN /\ -d < ex /\ ex < d
               /\ -d < ey /\ ey < d
               /\ d = 1 => (ex = 0 /\ ey = 0)

====
